---- MODULE Spec2Model ----
(***************************************************************************)
(* DocGeneratorVisitor (tensorflow/tools/docs/doc_generator_visitor.py).   *)
(*                                                                         *)
(* A name is a Python str, modelled as the sequence of its character       *)
(* codes, so that '.'.join, str.count('.') and the ordering used by        *)
(* sorted() are computed on characters.  A Python object is a record with  *)
(* its identity (what id() returns) and the kind the inspect predicates    *)
(* see.  A dict is a function; its domain is its key set.                  *)
(***************************************************************************)
EXTENDS Integers, Sequences, FiniteSets, TLC

\* index, tree: self._index and self._tree.
\* last: the operation last invoked and its arguments; ret: what it returned
\* or raised.  ncalls: how many operations have written the dicts.
VARIABLES index, tree, last, ret, ncalls

vars == <<index, tree, last, ret, ncalls>>

----------------------------------------------------------------------------
(* Bounds of the model.                                                    *)

MaxCalls == 2

MaxChildren == 2

----------------------------------------------------------------------------
(* Strings.                                                                *)

\* ord('.'), the separator of line 84 and the character counted on line 142.
Dot == 46

\* The names used as inputs: "" , "a" and "b".
EmptyName == <<>>
NameA == <<97>>
NameB == <<98>>

\* Python's str ordering: a < b.
RECURSIVE StrLess(_, _)
StrLess(a, b) ==
  IF b = <<>> THEN FALSE
  ELSE IF a = <<>> THEN TRUE
  ELSE IF Head(a) # Head(b) THEN Head(a) < Head(b)
  ELSE StrLess(Tail(a), Tail(b))

\* name.count('.')
CountDots(name) == Cardinality({i \in 1..Len(name) : name[i] = Dot})

----------------------------------------------------------------------------
(* Objects and the inspect predicates.                                     *)

Obj(i, k) == [id |-> i, kind |-> k]

ModuleObj == Obj(1, "module")
ClassObj == Obj(2, "class")
FunctionObj == Obj(3, "function")
ValueObj == Obj(4, "value")
NoObj == Obj(0, "none")

\* id(py_object)
id(py_object) == py_object.id

ismodule(py_object) == py_object.kind = "module"
isclass(py_object) == py_object.kind = "class"
isfunction(py_object) == py_object.kind = "function"
ismethod(py_object) == py_object.kind = "method"
\* inspect.isroutine: builtin, function, method or method descriptor.
isroutine(py_object) == py_object.kind \in {"builtin", "function", "method", "methoddescriptor"}
isproperty(py_object) == py_object.kind = "property"

----------------------------------------------------------------------------
(* dict operations.                                                        *)

EmptyDict == [k \in {} |-> k]

\* d[k] = v
SetItem(d, k, v) == [x \in (DOMAIN d) \cup {k} |-> IF x = k THEN v ELSE d[x]]

\* del d[k]
DelItem(d, k) == [x \in (DOMAIN d) \ {k} |-> d[x]]

Range(s) == {s[i] : i \in DOMAIN s}

----------------------------------------------------------------------------
(* __call__(parent_name, parent, children)                                 *)

\* A faulty variant of line 84: joins with a dot under the root too.
full_name_always_dotted(parent_name, name) == parent_name \o <<Dot>> \o name

\* line 84: '.'.join([parent_name, name]) if parent_name else name
full_name(parent_name, name) ==
  IF parent_name # <<>> THEN parent_name \o <<Dot>> \o name ELSE name

\* A faulty variant of line 85: the child is stored under its local name.
RECURSIVE index_loop_local_names(_, _, _, _)
index_loop_local_names(idx, parent_name, children, i) ==
  IF i > Len(children) THEN idx
  ELSE index_loop_local_names(SetItem(idx, children[i][1], children[i][2]),
                              parent_name, children, i + 1)

\* The loop of lines 83-86 on the index, from the i-th child on.
RECURSIVE index_loop(_, _, _, _)
index_loop(idx, parent_name, children, i) ==
  IF i > Len(children) THEN idx
  ELSE index_loop(SetItem(idx, full_name(parent_name, children[i][1]), children[i][2]),
                  parent_name, children, i + 1)

\* The loop of lines 83-86 on the tree, from the i-th child on.
RECURSIVE tree_loop(_, _, _, _)
tree_loop(tr, parent_name, children, i) ==
  IF i > Len(children) THEN tr
  ELSE tree_loop([tr EXCEPT ![parent_name] = Append(@, children[i][1])],
                 parent_name, children, i + 1)

\* What an operation returned or raised: None, RuntimeError, the tuple
\* (duplicate_of, duplicates), or a reference to one of the builder's dicts.
NoneValue == [kind |-> "None", duplicate_of |-> EmptyDict, duplicates |-> EmptyDict, ref |-> "none"]
RuntimeError == [NoneValue EXCEPT !.kind = "RuntimeError"]

\* The operation last invoked, with its arguments.
CallRecord(parent_name, parent, children) ==
  [op |-> "__call__", parent_name |-> parent_name, parent |-> parent, children |-> children]

OpRecord(op) == [op |-> op, parent_name |-> <<>>, parent |-> NoObj, children |-> <<>>]

\* lines 72-86.  The print of lines 76 and 78 writes to stdout only; the two
\* branches differ in nothing else.
call(parent_name, parent, children) ==
  /\ ncalls < MaxCalls
  /\ ncalls' = ncalls + 1
  /\ last' = CallRecord(parent_name, parent, children)
  /\ LET idx0 == SetItem(index, parent_name, parent)     \* line 72
         tr0 == SetItem(tree, parent_name, <<>>)         \* line 73
     IN IF ismodule(parent) \/ isclass(parent)           \* lines 75-78
        THEN /\ index' = index_loop(idx0, parent_name, children, 1)
             /\ tree' = tree_loop(tr0, parent_name, children, 1)
             /\ ret' = NoneValue
        ELSE /\ index' = idx0                             \* lines 79-81
             /\ tree' = tr0
             /\ ret' = RuntimeError

\* The observations fed to the visitor.
ParentNames == {EmptyName, NameA}
LocalNames == {EmptyName, NameA, NameB}
ParentObjects == {ModuleObj, ClassObj, FunctionObj}
ChildObjects == {ClassObj, FunctionObj, ValueObj}

SeqsUpTo(S, n) == UNION {[1..k -> S] : k \in 0..n}

Children == SeqsUpTo(LocalNames \X ChildObjects, MaxChildren)

Visit ==
  \E parent_name \in ParentNames, parent \in ParentObjects, children \in Children :
    call(parent_name, parent, children)

----------------------------------------------------------------------------
(* find_duplicates()                                                       *)

\* A faulty variant of lines 114-119: every object passes.
is_documentable_any(py_object) == TRUE

\* The test of lines 114-119.
is_documentable(py_object) ==
  \/ ismodule(py_object)
  \/ isclass(py_object)
  \/ isfunction(py_object)
  \/ isroutine(py_object)
  \/ ismethod(py_object)
  \/ isproperty(py_object)

\* A faulty variant of lines 120-128: a name seen first starts a list of its
\* own at once.
first_loop_body_eager(acc, name, py_object) ==
  IF is_documentable(py_object)
  THEN LET object_id == id(py_object) IN
       IF object_id \in DOMAIN acc.reverse_index
       THEN LET master_name == acc.reverse_index[object_id] IN
            [acc EXCEPT !.raw_duplicates[master_name] = Append(@, name)]
       ELSE [reverse_index |-> SetItem(acc.reverse_index, object_id, name),
             raw_duplicates |-> SetItem(acc.raw_duplicates, name, <<name>>)]
  ELSE acc

\* The body of the loop of lines 110-128 for one item of the index; acc holds
\* reverse_index and raw_duplicates.
first_loop_body(acc, name, py_object) ==
  IF is_documentable(py_object)
  THEN LET object_id == id(py_object) IN                                  \* line 120
       IF object_id \in DOMAIN acc.reverse_index                          \* line 121
       THEN LET master_name == acc.reverse_index[object_id] IN            \* line 122
            IF master_name \in DOMAIN acc.raw_duplicates                  \* line 123
            THEN [acc EXCEPT !.raw_duplicates[master_name] = Append(@, name)]
            ELSE [acc EXCEPT !.raw_duplicates =
                              SetItem(@, master_name, <<master_name, name>>)]
       ELSE [acc EXCEPT !.reverse_index = SetItem(@, object_id, name)]    \* line 128
  ELSE acc

\* Lines 105-128: the index is iterated in the order `items` (a sequence of its
\* keys); the i-th item on.
RECURSIVE first_loop(_, _, _, _)
first_loop(acc, idx, items, i) ==
  IF i > Len(items) THEN acc
  ELSE first_loop(first_loop_body(acc, items[i], idx[items[i]]), idx, items, i + 1)

raw_duplicates_of(idx, items) ==
  first_loop([reverse_index |-> EmptyDict, raw_duplicates |-> EmptyDict],
             idx, items, 1).raw_duplicates

\* Inserts name into a sorted sequence.
RECURSIVE insert_sorted(_, _)
insert_sorted(name, s) ==
  IF s = <<>> THEN <<name>>
  ELSE IF StrLess(name, Head(s)) THEN <<name>> \o s
  ELSE <<Head(s)>> \o insert_sorted(name, Tail(s))

RECURSIVE sort_from(_, _)
sort_from(names, i) ==
  IF i > Len(names) THEN <<>>
  ELSE insert_sorted(names[i], sort_from(names, i + 1))

\* A faulty variant of line 138: the names stay in the order found.
unsorted(names) == names

\* line 138: sorted(names)

sorted(names) == sort_from(names, 1)

\* A faulty variant of line 142: the first name, whatever its dots.
min_first_name(names) == names[1]

\* line 142: min(names, key=lambda name: name.count('.')), the first of the
\* elements with the least key.

min_by_dots(names) ==
  LET i == CHOOSE i \in 1..Len(names) :
             /\ \A j \in 1..Len(names) : CountDots(names[i]) <= CountDots(names[j])
             /\ \A j \in 1..(i - 1) : CountDots(names[j]) > CountDots(names[i])
  IN names[i]

\* A faulty variant of lines 145-147: without the test of line 146.
RECURSIVE rewire_all(_, _, _, _)
rewire_all(duplicate_of, names, master_name, i) ==
  IF i > Len(names) THEN duplicate_of
  ELSE rewire_all(SetItem(duplicate_of, names[i], master_name), names, master_name, i + 1)

\* lines 145-147, from the i-th name on.
RECURSIVE rewire(_, _, _, _)
rewire(duplicate_of, names, master_name, i) ==
  IF i > Len(names) THEN duplicate_of
  ELSE rewire(IF names[i] # master_name
              THEN SetItem(duplicate_of, names[i], master_name)
              ELSE duplicate_of,
              names, master_name, i + 1)

\* The body of the loop of lines 137-147 for one value of raw_duplicates; out
\* holds duplicate_of and duplicates.
second_loop_body(out, raw_names) ==
  LET names == sorted(raw_names)
      master_name == min_by_dots(names)
  IN [duplicates |-> SetItem(out.duplicates, master_name, names),
      duplicate_of |-> rewire(out.duplicate_of, names, master_name, 1)]

\* Lines 133-147: raw_duplicates.values() come in the order of `leaders` (a
\* sequence of the keys of raw_duplicates); the i-th on.
RECURSIVE second_loop(_, _, _, _)
second_loop(out, raw_duplicates, leaders, i) ==
  IF i > Len(leaders) THEN out
  ELSE second_loop(second_loop_body(out, raw_duplicates[leaders[i]]),
                   raw_duplicates, leaders, i + 1)

\* The orders a dict of the given keys can be iterated in.
RECURSIVE IterationOrders(_)
IterationOrders(keys) ==
  IF keys = {} THEN {<<>>}
  ELSE UNION {{<<k>> \o s : s \in IterationOrders(keys \ {k})} : k \in keys}

\* Lines 133-149 for one order of raw_duplicates.values().
rewired(raw_duplicates, leaders) ==
  LET out == second_loop([duplicate_of |-> EmptyDict, duplicates |-> EmptyDict],
                         raw_duplicates, leaders, 1)
  IN [NoneValue EXCEPT !.kind = "tuple",
                       !.duplicate_of = out.duplicate_of,
                       !.duplicates = out.duplicates]

\* What find_duplicates can return: one value for every order self._index can
\* be iterated in (line 110) and every order raw_duplicates can (line 137).
find_duplicates_returns(idx) ==
  UNION {{rewired(raw_duplicates, leaders) :
            leaders \in IterationOrders(DOMAIN raw_duplicates)} :
         raw_duplicates \in {raw_duplicates_of(idx, items) :
                               items \in IterationOrders(DOMAIN idx)}}

\* A faulty variant of find_duplicates: it empties the index it iterated.
find_duplicates_popping ==
  \E result \in find_duplicates_returns(index) :
    /\ ret' = result
    /\ last' = OpRecord("find_duplicates")
    /\ index' = EmptyDict
    /\ UNCHANGED <<tree, ncalls>>

\* lines 88-149
find_duplicates ==
  \E result \in find_duplicates_returns(index) :
    /\ ret' = result
    /\ last' = OpRecord("find_duplicates")
    /\ UNCHANGED <<index, tree, ncalls>>

----------------------------------------------------------------------------
(* The accessors, and a caller that writes through what they return.       *)

Ref(field) == [NoneValue EXCEPT !.kind = "ref", !.ref = field]

\* lines 31-40: returns self._index itself.
get_index ==
  /\ ret' = Ref("_index")
  /\ last' = OpRecord("index")
  /\ UNCHANGED <<index, tree, ncalls>>

\* lines 42-52: returns self._tree itself.
get_tree ==
  /\ ret' = Ref("_tree")
  /\ last' = OpRecord("tree")
  /\ UNCHANGED <<index, tree, ncalls>>

\* A caller holding what an accessor returned (ret) stores an entry in it:
\* the dict is the builder's own (lines 40 and 52), so the store lands there.
caller_setitem(key, py_object, names) ==
  /\ ret.kind = "ref"
  /\ ncalls < MaxCalls
  /\ ncalls' = ncalls + 1
  /\ last' = OpRecord("setitem")
  /\ ret' = ret
  /\ IF ret.ref = "_index"
     THEN index' = SetItem(index, key, py_object) /\ tree' = tree
     ELSE tree' = SetItem(tree, key, names) /\ index' = index

\* The same caller deletes an entry of it.
caller_delitem(key) ==
  /\ ret.kind = "ref"
  /\ ncalls < MaxCalls
  /\ ncalls' = ncalls + 1
  /\ last' = OpRecord("delitem")
  /\ ret' = ret
  /\ IF ret.ref = "_index"
     THEN key \in DOMAIN index /\ index' = DelItem(index, key) /\ tree' = tree
     ELSE key \in DOMAIN tree /\ tree' = DelItem(tree, key) /\ index' = index

CallerSetItem ==
  \E key \in LocalNames, py_object \in ChildObjects, names \in SeqsUpTo(LocalNames, 1) :
    caller_setitem(key, py_object, names)

CallerDelItem ==
  \E key \in (DOMAIN index) \cup (DOMAIN tree) : caller_delitem(key)

----------------------------------------------------------------------------

Init ==
  /\ index = EmptyDict       \* line 28
  /\ tree = EmptyDict        \* line 29
  /\ last = OpRecord("__init__")
  /\ ret = NoneValue
  /\ ncalls = 0

Next ==
  \/ Visit
  \/ find_duplicates
  \/ get_index
  \/ get_tree

Spec == Init /\ [][Next]_vars

\* The builder together with a caller that writes through the accessors.
NextExt ==
  \/ Next
  \/ CallerSetItem
  \/ CallerDelItem

SpecExt == Init /\ [][NextExt]_vars

----------------------------------------------------------------------------
(* Vocabulary of the properties.                                           *)

Join(parent_name, name) ==
  IF parent_name = <<>> THEN name ELSE parent_name \o <<Dot>> \o name

IsContainer(py_object) == py_object.kind \in {"module", "class"}

Eligible(py_object) ==
  py_object.kind \in {"module", "class", "function", "builtin", "method",
                      "methoddescriptor", "property"}

Has(d, k, v) == k \in DOMAIN d /\ d[k] = v

LocalNamesOf(children) == [i \in 1..Len(children) |-> children[i][1]]

AfterCall == last.op = "__call__"
AfterValidCall == AfterCall /\ IsContainer(last.parent)
AfterFind == last.op = "find_duplicates"

\* The index names of an object.
NamesOf(py_object) == {n \in DOMAIN index : index[n] = py_object}

\* The groups: the name sets, of two or more names, of the eligible objects.
Groups ==
  {G \in {NamesOf(index[n]) : n \in {m \in DOMAIN index : Eligible(index[m])}} :
     Cardinality(G) >= 2}

Before(m, n) ==
  \/ CountDots(m) < CountDots(n)
  \/ CountDots(m) = CountDots(n) /\ StrLess(m, n)

\* The name of G with the fewest dots, the lexicographically least of those.
BestName(G) == CHOOSE m \in G : \A n \in G \ {m} : Before(m, n)

LeastName(G) == CHOOSE m \in G : \A n \in G \ {m} : StrLess(m, n)

IsSortedListOf(s, G) ==
  /\ Len(s) = Cardinality(G)
  /\ Range(s) = G
  /\ \A i, j \in 1..Len(s) : i < j => StrLess(s[i], s[j])

InResult(n) ==
  \/ n \in DOMAIN ret.duplicate_of
  \/ n \in DOMAIN ret.duplicates
  \/ \E k \in DOMAIN ret.duplicates : n \in Range(ret.duplicates[k])

----------------------------------------------------------------------------
(* Properties.                                                             *)

\* C1: after find_duplicates, for every group of two or more names of one
\* eligible object, the one name of the group that is a key of duplicates (the
\* master) is the name with the fewest dots, the lexicographically smallest of
\* those on a tie, whatever order the index was iterated in.
C1_MasterIsShortestThenFirst ==
  AfterFind =>
    \A G \in Groups : G \cap DOMAIN ret.duplicates = {BestName(G)}

\* A result with a group whose master is not its lexicographically smallest
\* name, next to a group whose master won a tie on the number of dots.
C1_Witness ==
  /\ AfterFind
  /\ \E G \in Groups : BestName(G) # LeastName(G) /\ BestName(G) \in DOMAIN ret.duplicates
  /\ \E G \in Groups : \E n \in G \ {BestName(G)} : CountDots(n) = CountDots(BestName(G))

\* C2 (as stated): a call whose parent is neither a module nor a class raises
\* RuntimeError and leaves index and tree as they were.
C2_RejectedCallMutatesNothing ==
  [][(last'.op = "__call__" /\ ~IsContainer(last'.parent))
       => (ret'.kind = "RuntimeError" /\ UNCHANGED <<index, tree>>)]_vars

\* C3 (as stated): after a call with a module or class parent, index[parent_name]
\* is parent, index[join(parent_name, name)] is child for every pair of children,
\* and tree[parent_name] is the sequence of the local names.
C3_IndexCompleteness ==
  AfterValidCall =>
    /\ Has(index, last.parent_name, last.parent)
    /\ \A i \in 1..Len(last.children) :
         Has(index, Join(last.parent_name, last.children[i][1]), last.children[i][2])
    /\ Has(tree, last.parent_name, LocalNamesOf(last.children))

\* C3 (amended): after such a call tree[parent_name] is the sequence of the
\* local names; index[join(parent_name, name)] is child for every pair that no
\* later pair of children repeats the local name of; and index[parent_name] is
\* parent unless a child's joined name is parent_name itself.
C3_IndexCompletenessLastWins ==
  AfterValidCall =>
    /\ Has(tree, last.parent_name, LocalNamesOf(last.children))
    /\ \A i \in 1..Len(last.children) :
         (\A j \in (i + 1)..Len(last.children) :
            last.children[j][1] # last.children[i][1])
         => Has(index, Join(last.parent_name, last.children[i][1]), last.children[i][2])
    /\ (\A i \in 1..Len(last.children) :
          Join(last.parent_name, last.children[i][1]) # last.parent_name)
       => Has(index, last.parent_name, last.parent)

\* A root observation whose two children share the empty local name and are
\* different objects.
C3_Witness ==
  /\ AfterValidCall
  /\ last.parent_name = <<>>
  /\ Len(last.children) = 2
  /\ last.children[1][1] = <<>>
  /\ last.children[2][1] = <<>>
  /\ last.children[1][2] # last.children[2][2]
  /\ Has(index, <<>>, last.children[2][2])

\* C4: after find_duplicates, every group has exactly one entry of duplicates:
\* its key is the group's master, its value the sorted list, without
\* repetition, of the group's names; duplicate_of maps every other name of the
\* group to the master, and no key of duplicates is a key of duplicate_of.
C4_OneEntryPerGroup ==
  AfterFind =>
    /\ \A G \in Groups :
         /\ {k \in DOMAIN ret.duplicates : Range(ret.duplicates[k]) \cap G # {}}
              = {BestName(G)}
         /\ IsSortedListOf(ret.duplicates[BestName(G)], G)
         /\ \A n \in G \ {BestName(G)} : Has(ret.duplicate_of, n, BestName(G))
    /\ (DOMAIN ret.duplicates) \cap (DOMAIN ret.duplicate_of) = {}

\* A result for an index with two groups, one of them of three names.
C4_Witness ==
  /\ AfterFind
  /\ Cardinality(Groups) >= 2
  /\ \E G \in Groups : Cardinality(G) >= 3
  /\ Cardinality(DOMAIN ret.duplicates) >= 2

\* C5: what find_duplicates returns is the same for every order the index (and
\* raw_duplicates) can be iterated in.
C5_OrderIndependent ==
  AfterFind => find_duplicates_returns(index) = {ret}

\* A result for a group of three names, which six orders can discover.
C5_Witness ==
  /\ AfterFind
  /\ \E k \in DOMAIN ret.duplicates : Len(ret.duplicates[k]) >= 3

\* C6: after find_duplicates, a name whose object has no other name is not a
\* key of duplicate_of, not a key of duplicates and in no list of duplicates.
C6_SingleNameNotReported ==
  AfterFind =>
    \A n \in DOMAIN index : NamesOf(index[n]) = {n} => ~InResult(n)

\* A result for an index where the class named "a" was observed as a child of
\* the root and as a parent, has that one name, and another object has two.
C6_Witness ==
  /\ AfterFind
  /\ Has(index, NameA, ClassObj)
  /\ NamesOf(ClassObj) = {NameA}
  /\ NameA \in DOMAIN tree
  /\ <<>> \in DOMAIN tree
  /\ NameA \in Range(tree[<<>>])
  /\ ret.duplicates # EmptyDict

\* C7: after find_duplicates, a name whose object is not a module, class,
\* function, routine, method or property is nowhere in the result.
C7_ValuesNotReported ==
  AfterFind =>
    \A n \in DOMAIN index : ~Eligible(index[n]) => ~InResult(n)

\* A result for an index that holds one plain value under two names.
C7_Witness ==
  /\ AfterFind
  /\ \E n1, n2 \in DOMAIN index :
       n1 # n2 /\ index[n1] = index[n2] /\ ~Eligible(index[n1])
  /\ ret.duplicates # EmptyDict

\* C8: find_duplicates leaves index and tree as they were, and a second
\* find_duplicates right after a first returns what the first returned.
C8_FindDuplicatesReadOnly ==
  [][last'.op = "find_duplicates"
       => /\ UNCHANGED <<index, tree>>
          /\ (last.op = "find_duplicates" => ret' = ret)]_vars

\* A result with a duplicates entry, for a builder that has a tree.
C8_Witness ==
  /\ AfterFind
  /\ ret.duplicates # EmptyDict
  /\ tree # EmptyDict
  /\ ncalls = 1

\* C9 (as stated): before any observation the accessors return empty maps, and
\* a caller's store or delete in a map an accessor returned leaves the
\* builder's index and tree as they were.
C9_AccessorsIsolated ==
  /\ [](ncalls = 0 /\ ret.kind = "ref" => index = EmptyDict /\ tree = EmptyDict)
  /\ [][last'.op \in {"setitem", "delitem"} => UNCHANGED <<index, tree>>]_vars

\* C10: every key of tree is a key of index, every local name of tree[p]
\* joined to p is a key of index, and a step never removes a key of index.
C10_TreeWithinIndexAndIndexGrows ==
  /\ [](\A p \in DOMAIN tree :
          /\ p \in DOMAIN index
          /\ \A i \in 1..Len(tree[p]) : Join(p, tree[p][i]) \in DOMAIN index)
  /\ [][(DOMAIN index) \subseteq (DOMAIN index')]_vars

\* A rejected call on the root name after an earlier, valid root observation
\* that had a child named "b".
C10_Witness ==
  /\ AfterCall
  /\ ret.kind = "RuntimeError"
  /\ last.parent_name = <<>>
  /\ tree[<<>>] = <<>>
  /\ NameB \in DOMAIN index
  /\ ncalls = 2

====
